---- MODULE Spec2Model ----
(***************************************************************************)
(* A model of the enrichment orchestration engine of company-enricher:     *)
(*   - pipeline/rate_limiter.py : RateLimiter, AdaptiveRateLimiter         *)
(*   - pipeline/enricher.py     : CompanyEnricher, enrich_dataframe        *)
(*   - pipeline/batch.py        : save_checkpoint                          *)
(*   - cli.py                   : enrich (resume handling)                 *)
(* Each subsystem has its own specification over its own variables; the    *)
(* variables of the other subsystems stay at their initial values.         *)
(***************************************************************************)
EXTENDS Integers, Sequences, FiniteSets, TLC

VARIABLES
    \* ---- AdaptiveRateLimiter (rate_limiter.py:75-111); rates are exact rationals <<num, den>>
    min_rate,               \* self.min_rate
    adaptive_max_rate,      \* self.max_rate of the adaptive instance (refill rate AND ceiling)
    current_rate,           \* self.current_rate
    consecutive_successes,  \* self.consecutive_successes
    recent_failures,        \* self.recent_failures
    configured,             \* the constructor's arguments [initial_rate, min_rate, max_rate]
    adaptive_op,            \* the last call made on the instance
    \* ---- RateLimiter (rate_limiter.py:11-72); time is counted in ticks
    max_rate,               \* self.max_rate, tokens per second
    burst_size,             \* self.burst_size, tokens
    tokens,                 \* self.tokens, in units of 1/TicksPerSecond token
    last_update,            \* self.last_update, a tick
    now,                    \* time.time(), a tick
    lock_owner,             \* the task holding self._lock, 0 when it is free
    waiters,                \* the tasks queued on self._lock, first come first served
    task_pc,                \* where each task is in acquire: "idle", "lock_wait", "sleeping"
    task_cost,              \* the tokens argument of each task's current acquire
    task_wake,              \* the tick at which a sleeping task's asyncio.sleep is over
    granted,                \* the number of acquire calls that have returned
    first_grant,            \* the tick at which the first acquire returned
    last_grant,             \* the tick at which the latest acquire returned
    unit_costs,             \* TRUE while every acquire called so far asked for 1 token
    reset_outcome,          \* "raised" or "returned" right after a call of reset, else "none"
    \* ---- CompanyEnricher._perform_enrichment for one record (enricher.py:61-116)
    rec_pc,                 \* the step the record is at
    result,                 \* the EnrichmentResult being filled
    profile,                \* what fetch_profile gave: "throw", "empty", "address"
    filings,                \* what fetch_latest_filings gave: "throw", "empty", "some"
    threw,                  \* the sub-fetch whose exception reached the except clause
    steps_run,              \* the steps executed so far
    geocoded,               \* what to_latlon gave: "not_called", "throw", "none", "latlon"
    \* ---- cli.enrich and enrich_dataframe (cli.py:116-149, enricher.py:132-214)
    input_len,              \* N, the number of rows of the input file; row ids are 1..N
    has_columns,            \* FALSE when the frame lacks CompanyName / CompanyNumber
    fetch,                  \* what the sub-fetches return for each input row
    concurrency,            \* the concurrency argument
    checkpoint_every,       \* the checkpoint_every argument
    run_pc,                 \* "cli", "loop", "gather", "done", "killed"
    df,                     \* the frame given to enrich_dataframe: a sequence of row ids
    i,                      \* the loop variable i, the offset of the current window
    batch,                  \* the rows of the current window
    batch_pc,               \* each window task: "created", "running", "done"
    batch_out,              \* what each window task returned or raised
    finished,               \* the window's tasks in the order they completed
    sem_value,              \* the free permits of CompanyEnricher.semaphore
    enriched_results,       \* the list enriched_results
    output_file,            \* the rows of the file at output_path
    file_exists,            \* whether the file at output_path exists
    final_df,               \* the frame enrich_dataframe returned
    checkpoints,            \* the checkpoints this process has written
    resumed,                \* TRUE in a process started with --resume
    killed_after,           \* the checkpoints the killed process had written, -1: no kill
    completed,              \* the rows whose enrichment task has completed in this process
    pt_processed,           \* progress_tracker.processed
    pt_successful,          \* progress_tracker.successful
    pt_failed,              \* progress_tracker.failed
    write_failed,           \* TRUE once save_checkpoint has raised
    last_checkpoint,        \* the rows of the last checkpoint write that completed
    \* ---- the cached decorator's wrapper (cache.py:47-79)
    wrapped_async,          \* TRUE when the decorated function is a coroutine function
    store,                  \* the disk cache: for each key the value stored, 0 when none
    invoked,                \* how many times the decorated function ran, per argument
    calls_made,             \* the calls of the wrapper made so far
    wrap_pc,                \* "idle", "get", "call", "set", "returned", "raised"
    wrap_arg,               \* the argument of the call under way
    wrap_result,            \* what the call returns: the value of the n-th run, 0: nothing
    wrap_invocations,       \* the runs of the decorated function during this call
    wrap_repeat,            \* TRUE when an earlier call with this argument has returned
    get_raised,             \* cache.get raised during this call
    set_raised,             \* cache.set raised during this call
    faulted,                \* a fault of the cache's storage has occurred in the run
    first_result,           \* per argument, what the first call that returned gave
    \* ---- extract_headcount_from_filings (companies_house.py:146-221)
    filing_list,            \* the filings argument: [year, outcome] per filing
    fi,                     \* the number of filings the loop has gone through
    headcounts,             \* per tracked year the filing whose count is held, 0: ""
    doc_fetches,            \* the filings whose document was asked for
    extract_pc,             \* "loop", "returned", "raised"
    \* ---- the website search of the records of a run (enricher.py:25-29,95-98;
    \*      web_search.py:63-115)
    limiters_built,         \* the RateLimiter instances constructed so far
    enricher_limiter,       \* the instance held by the run's CompanyEnricher, 0: none yet
    search_pc,              \* per record: "idle", "acquiring", "acquired", "called", "done"
    search_limiter,         \* per record the instance its search acquires from
    search_acquires,        \* per record the acquire calls that have returned
    provider_calls,         \* per record the calls made to the search provider
    \* ---- one run's windows, semaphore and limiter lock together (enricher.py:48-59,
    \*      173-183; rate_limiter.py:35-56)
    gate_total,             \* len(companies)
    gate_concurrency,       \* the permits of the enricher's semaphore
    gate_window,            \* checkpoint_every: the tasks of a full window
    gate_offset,            \* the loop variable i
    gate_main,              \* enrich_dataframe: "loop", "gather", "done"
    gate_pc,                \* per task of the window: "created", "running", "lock_wait",
                            \* "sleeping", "searched", "done"
    gate_sem,               \* the free permits
    gate_lock,              \* the task inside "async with self._lock", 0: none
    gate_queue,             \* the tasks waiting for the lock, first come first
    \* ---- GeocoderClient._geocode_nominatim of concurrent records (geocoder.py:70-95)
    geo_now,                \* the clock, in ticks
    geo_pc,                 \* per record: "idle", "sleeping", "requested"
    geo_wake,               \* per record the tick its asyncio.sleep(1.1) ends
    geo_requests,           \* the ticks at which a request was sent, in order
    \* ---- BatchProcessor.process_items (batch.py:27-64)
    items_len,              \* len(items)
    batch_size,             \* self.batch_size
    bp_checkpoint_every,    \* the checkpoint_every argument
    bp_offset,              \* the loop variable i
    results_len,            \* len(results)
    processed_count,        \* processed_count
    callback_calls,         \* the calls of checkpoint_callback so far
    callback_arg,           \* the length of the list the last call was given
    bp_pc,                  \* "loop", "returned"
    \* ---- RateLimiter.__init__ on fractional rates (rate_limiter.py:14-26)
    ctor_rate,              \* max_rate, in twentieths
    ctor_burst,             \* the burst_size argument, 0: not given
    built_burst             \* self.burst_size once constructed, -1 before

adaptiveVars == <<min_rate, adaptive_max_rate, current_rate, consecutive_successes,
                  recent_failures, configured, adaptive_op>>

limiterVars == <<max_rate, burst_size, tokens, last_update, now, lock_owner, waiters,
                 task_pc, task_cost, task_wake, granted, first_grant, last_grant,
                 unit_costs, reset_outcome>>

recordVars == <<rec_pc, result, profile, filings, threw, steps_run, geocoded>>

runVars == <<input_len, has_columns, fetch, concurrency, checkpoint_every, run_pc, df, i,
             batch, batch_pc, batch_out, finished, sem_value, enriched_results,
             output_file, file_exists, final_df, checkpoints, resumed, killed_after,
             completed, pt_processed, pt_successful, pt_failed, write_failed, last_checkpoint>>

cacheVars == <<wrapped_async, store, invoked, calls_made, wrap_pc, wrap_arg, wrap_result,
               wrap_invocations, wrap_repeat, get_raised, set_raised, faulted,
               first_result>>

filingVars == <<filing_list, fi, headcounts, doc_fetches, extract_pc>>

searchVars == <<limiters_built, enricher_limiter, search_pc, search_limiter,
                search_acquires, provider_calls>>

fetcherVars == <<cacheVars, filingVars, searchVars>>

coreVars == <<adaptiveVars, limiterVars, recordVars, runVars>>

gateVars == <<gate_total, gate_concurrency, gate_window, gate_offset, gate_main, gate_pc,
              gate_sem, gate_lock, gate_queue>>

geoVars == <<geo_now, geo_pc, geo_wake, geo_requests>>

batchVars == <<items_len, batch_size, bp_checkpoint_every, bp_offset, results_len,
               processed_count, callback_calls, callback_arg, bp_pc>>

burstVars == <<ctor_rate, ctor_burst, built_burst>>

auxVars == <<gateVars, geoVars, batchVars, burstVars>>

vars == <<coreVars, fetcherVars, auxVars>>

-----------------------------------------------------------------------------
(* Exact rational arithmetic for the float rates.                          *)

RECURSIVE GCD(_, _)
GCD(a, b) == IF b = 0 THEN a ELSE GCD(b, a % b)

Rat(n, d) == LET g == GCD(n, d) IN <<n \div g, d \div g>>

RMul(a, b) == Rat(a[1] * b[1], a[2] * b[2])

RLess(a, b) == a[1] * b[2] < b[1] * a[2]

RLeq(a, b) == a[1] * b[2] <= b[1] * a[2]

RMin(a, b) == IF RLess(b, a) THEN b ELSE a

RMax(a, b) == IF RLess(a, b) THEN b ELSE a

-----------------------------------------------------------------------------
(* RateLimiter                                                             *)

\* ticks per second: the resolution of the model's clock
TicksPerSecond == 2

\* the last tick of the model's clock
MaxTime == 3

\* the number of tasks sharing the limiter
NumTasks == 2

\* the number of acquire calls made in a run
MaxAcquires == 3

\* the largest tokens argument of acquire
MaxCost == 2

\* the largest burst_size a limiter is built with
MaxBurst == 2

Tasks == 1..NumTasks

Min(a, b) == IF a < b THEN a ELSE b

\* a number of tokens in the unit of the tokens variable
Scaled(n) == n * TicksPerSecond

Refill_NoCap(elapsed) == tokens + elapsed * max_rate

\* rate_limiter.py:40-43  min(self.burst_size, self.tokens + elapsed * self.max_rate)
Refill(elapsed) == Min(Scaled(burst_size), tokens + elapsed * max_rate)

\* rate_limiter.py:48  wait_time = (tokens - self.tokens) / self.max_rate, in ticks
WaitTime(cost, have) == (Scaled(cost) - have) \div max_rate

\* rate_limiter.py:58-66  RateLimiter.available_tokens
available_tokens == Refill(now - last_update) \div TicksPerSecond

\* rate_limiter.py:23  max(1, int(max_rate * 2)), for a whole max_rate
DefaultBurst(r) == IF 2 * r < 1 THEN 1 ELSE 2 * r

\* rate_limiter.py:23  self.burst_size = burst_size or max(1, int(max_rate * 2)); the
\* argument 0 stands for None as well, both being false for "or"
BurstSize(r, b) == IF b = 0 THEN DefaultBurst(r) ELSE b

\* RateLimiter.__init__(max_rate, burst_size), built at tick 0
LimiterInit ==
    \* max_rate values: the rates whose waits are a whole number of ticks
    \E r \in {q \in 1..TicksPerSecond : TicksPerSecond % q = 0}, b \in 0..MaxBurst :
        /\ max_rate = r
        /\ burst_size = BurstSize(r, b)
        /\ tokens = Scaled(BurstSize(r, b))
        /\ last_update = 0
        /\ now = 0
        /\ lock_owner = 0
        /\ waiters = <<>>
        /\ task_pc = [t \in Tasks |-> "idle"]
        /\ task_cost = [t \in Tasks |-> 0]
        /\ task_wake = [t \in Tasks |-> 0]
        /\ granted = 0
        /\ first_grant = 0
        /\ last_grant = 0
        /\ unit_costs = TRUE
        /\ reset_outcome = "none"

LimiterIdle ==
    /\ max_rate = 1
    /\ burst_size = 1
    /\ tokens = Scaled(1)
    /\ last_update = 0
    /\ now = 0
    /\ lock_owner = 0
    /\ waiters = <<>>
    /\ task_pc = [t \in Tasks |-> "idle"]
    /\ task_cost = [t \in Tasks |-> 0]
    /\ task_wake = [t \in Tasks |-> 0]
    /\ granted = 0
    /\ first_grant = 0
    /\ last_grant = 0
    /\ unit_costs = TRUE
    /\ reset_outcome = "none"

\* an acquire call returns to its caller at the current tick
Returned ==
    /\ granted' = granted + 1
    /\ first_grant' = IF granted = 0 THEN now ELSE first_grant
    /\ last_grant' = now

\* rate_limiter.py:28,35  a task calls acquire(cost) and queues for self._lock; the tasks
\* being alike, the caller is taken to be the first one that is not inside acquire.
\* Calls are made up to MaxTime.
AcquireCall(t, cost) ==
    /\ reset_outcome' = "none"
    /\ task_pc[t] = "idle"
    /\ \A u \in 1..(t - 1) : task_pc[u] # "idle"
    /\ now <= MaxTime
    /\ granted + Cardinality({u \in Tasks : task_pc[u] # "idle"}) < MaxAcquires
    /\ unit_costs' = (unit_costs /\ cost = 1)
    /\ task_pc' = [task_pc EXCEPT ![t] = "lock_wait"]
    /\ task_cost' = [task_cost EXCEPT ![t] = cost]
    /\ waiters' = Append(waiters, t)
    /\ UNCHANGED <<max_rate, burst_size, tokens, last_update, now, lock_owner, task_wake,
                   granted, first_grant, last_grant, adaptiveVars, recordVars, runVars,
                   fetcherVars, auxVars>>

\* variant: the body of acquire is entered without waiting for the lock
LockFree_Always == TRUE

\* rate_limiter.py:35  "async with self._lock" is entered when no task holds the lock
LockFree == lock_owner = 0

\* rate_limiter.py:35-56  the task gets the lock, refills, and either debits and returns
\* or starts to sleep with the lock held
AcquireLocked(t) ==
    /\ reset_outcome' = "none"
    /\ task_pc[t] = "lock_wait"
    /\ LockFree
    /\ waiters # <<>> /\ Head(waiters) = t
    /\ waiters' = Tail(waiters)
    /\ last_update' = now
    /\ LET have == Refill(now - last_update) IN
       IF have < Scaled(task_cost[t])
       THEN /\ tokens' = have
            /\ lock_owner' = t
            /\ task_pc' = [task_pc EXCEPT ![t] = "sleeping"]
            /\ task_wake' = [task_wake EXCEPT ![t] = now + WaitTime(task_cost[t], have)]
            /\ UNCHANGED <<task_cost, granted, first_grant, last_grant>>
       ELSE /\ tokens' = have - Scaled(task_cost[t])
            /\ task_pc' = [task_pc EXCEPT ![t] = "idle"]
            /\ task_cost' = [task_cost EXCEPT ![t] = 0]
            /\ Returned
            /\ UNCHANGED <<lock_owner, task_wake>>
    /\ UNCHANGED <<max_rate, burst_size, now, unit_costs, adaptiveVars, recordVars, runVars,
                   fetcherVars, auxVars>>

\* variant: the sleeper returns without leaving the lock
AcquireWake_KeepsLock(t) ==
    /\ reset_outcome' = "none"
    /\ task_pc[t] = "sleeping"
    /\ now >= task_wake[t]
    /\ tokens' = Scaled(task_cost[t]) - Scaled(task_cost[t])
    /\ task_pc' = [task_pc EXCEPT ![t] = "idle"]
    /\ task_cost' = [task_cost EXCEPT ![t] = 0]
    /\ task_wake' = [task_wake EXCEPT ![t] = 0]
    /\ Returned
    /\ UNCHANGED <<max_rate, burst_size, last_update, now, lock_owner, waiters, unit_costs,
                   adaptiveVars, recordVars, runVars, fetcherVars, auxVars>>

\* rate_limiter.py:50-56  asyncio.sleep is over: tokens = cost, debit, release the lock
AcquireWake(t) ==
    /\ reset_outcome' = "none"
    /\ task_pc[t] = "sleeping"
    /\ now >= task_wake[t]
    /\ tokens' = Scaled(task_cost[t]) - Scaled(task_cost[t])
    /\ lock_owner' = 0
    /\ task_pc' = [task_pc EXCEPT ![t] = "idle"]
    /\ task_cost' = [task_cost EXCEPT ![t] = 0]
    /\ task_wake' = [task_wake EXCEPT ![t] = 0]
    /\ Returned
    /\ UNCHANGED <<max_rate, burst_size, last_update, now, waiters, unit_costs, adaptiveVars, recordVars, runVars,
                   fetcherVars, auxVars>>

\* time passes; the clock is followed up to MaxTime and, beyond it, for as long as a
\* task is still inside asyncio.sleep (rate_limiter.py:50)
Tick ==
    /\ reset_outcome' = "none"
    /\ \/ now < MaxTime
       \/ \E t \in Tasks : task_pc[t] = "sleeping" /\ now < task_wake[t]
    /\ now' = now + 1
    /\ UNCHANGED <<max_rate, burst_size, tokens, last_update, lock_owner, waiters, task_pc,
                   task_cost, task_wake, granted, first_grant, last_grant, unit_costs,
                   adaptiveVars, recordVars, runVars, fetcherVars, auxVars>>

\* rate_limiter.py:68-72  reset, called while no acquire is under way or while one sleeps
\* holding the lock: "with asyncio.Lock():" raises TypeError, an asyncio.Lock being no
\* context manager for a plain "with", before the two assignments are reached
reset ==
    /\ reset_outcome = "none"
    /\ \/ \A t \in Tasks : task_pc[t] = "idle"
       \/ lock_owner # 0
    /\ reset_outcome' = "raised"
    /\ UNCHANGED <<max_rate, burst_size, tokens, last_update, now, lock_owner, waiters,
                   task_pc, task_cost, task_wake, granted, first_grant, last_grant,
                   unit_costs, adaptiveVars, recordVars, runVars, fetcherVars, auxVars>>

LimiterNext ==
    \/ \E t \in Tasks, cost \in 1..MaxCost : AcquireCall(t, cost)
    \/ \E t \in Tasks : AcquireLocked(t)
    \/ \E t \in Tasks : AcquireWake(t)
    \/ Tick
    \/ reset

-----------------------------------------------------------------------------
(* AdaptiveRateLimiter                                                     *)

\* bound on recent_failures, which the code lets grow without limit
MaxFailures == 5

\* rate_limiter.py:92  "if self.consecutive_successes >= 10"
SuccessThreshold == 10

\* rate_limiter.py:105 "self.recent_failures >= 3"
FailureThreshold == 3

\* rate_limiter.py:93  new_rate = min(self.max_rate, self.current_rate * 1.1)
SuccessNewRate == RMin(adaptive_max_rate, RMul(current_rate, Rat(11, 10)))

FailureNewRate_NoFloor == RMul(current_rate, Rat(1, 2))

\* rate_limiter.py:107 new_rate = max(self.min_rate, self.current_rate * 0.5)
FailureNewRate == RMax(min_rate, RMul(current_rate, Rat(1, 2)))

FailureTriggers_IgnoresRateLimit(is_rate_limit, failures) == failures >= FailureThreshold

FailureTriggers_OffByOne(is_rate_limit, failures) ==
    is_rate_limit \/ failures >= FailureThreshold - 1

\* rate_limiter.py:105 "if is_rate_limit or self.recent_failures >= 3"
FailureTriggers(is_rate_limit, failures) == is_rate_limit \/ failures >= FailureThreshold

\* variant: the decrement without its floor
DecayedFailures_Unfloored == recent_failures - 1

\* rate_limiter.py:89  max(0, self.recent_failures - 1)
DecayedFailures == IF recent_failures - 1 > 0 THEN recent_failures - 1 ELSE 0

\* AdaptiveRateLimiter.__init__(initial_rate, min_rate, max_rate)
AdaptiveInit ==
    \* constructor arguments explored (the tests' values and the defaults 0.1 and 10.0)
    \E ir \in {Rat(1, 1), Rat(2, 1)},
       mn \in {Rat(1, 10), Rat(1, 2), Rat(1, 1)},
       mx \in {Rat(2, 1), Rat(3, 1), Rat(5, 1), Rat(10, 1)} :
        /\ RLeq(mn, ir) /\ RLeq(ir, mx)
        /\ configured = [initial_rate |-> ir, min_rate |-> mn, max_rate |-> mx]
        /\ min_rate = mn
        /\ adaptive_max_rate = mx
        /\ current_rate = ir
        /\ consecutive_successes = 0
        /\ recent_failures = 0
        /\ adaptive_op = "init"

AdaptiveIdle ==
    /\ configured = [initial_rate |-> Rat(1, 1), min_rate |-> Rat(1, 10), max_rate |-> Rat(10, 1)]
    /\ min_rate = Rat(1, 10)
    /\ adaptive_max_rate = Rat(10, 1)
    /\ current_rate = Rat(1, 1)
    /\ consecutive_successes = 0
    /\ recent_failures = 0
    /\ adaptive_op = "init"

\* AdaptiveRateLimiter.record_success
record_success ==
    LET cs == consecutive_successes + 1 IN
    /\ recent_failures' = DecayedFailures
    /\ IF cs >= SuccessThreshold
       THEN /\ current_rate' = SuccessNewRate
            /\ adaptive_max_rate' =
                 IF SuccessNewRate # current_rate THEN SuccessNewRate ELSE adaptive_max_rate
            /\ consecutive_successes' = 0
       ELSE /\ consecutive_successes' = cs
            /\ UNCHANGED <<current_rate, adaptive_max_rate>>
    /\ adaptive_op' = "record_success"
    /\ UNCHANGED <<min_rate, configured, limiterVars, recordVars, runVars, fetcherVars, auxVars>>

\* AdaptiveRateLimiter.record_failure(is_rate_limit)
record_failure(is_rate_limit) ==
    LET rf == recent_failures + 1 IN
    /\ recent_failures < MaxFailures
    /\ recent_failures' = rf
    /\ consecutive_successes' = 0
    /\ IF FailureTriggers(is_rate_limit, rf)
       THEN /\ current_rate' = FailureNewRate
            /\ adaptive_max_rate' =
                 IF FailureNewRate # current_rate THEN FailureNewRate ELSE adaptive_max_rate
       ELSE UNCHANGED <<current_rate, adaptive_max_rate>>
    /\ adaptive_op' = IF is_rate_limit THEN "record_failure_rate_limit" ELSE "record_failure"
    /\ UNCHANGED <<min_rate, configured, limiterVars, recordVars, runVars, fetcherVars, auxVars>>

AdaptiveNext ==
    \/ record_success
    \/ \E is_rate_limit \in BOOLEAN : record_failure(is_rate_limit)

-----------------------------------------------------------------------------
(* The per-record enrichment, CompanyEnricher._perform_enrichment          *)

ResultFields == {"company_url", "description", "employees_2024", "employees_2023",
                 "employees_2022", "manufacturing_location"}

\* enricher.py:69-76  the all-empty EnrichmentResult
EmptyResult == [f \in ResultFields |-> ""]

\* enricher.py:88-90  the profile is no exception and carries a registered office address
GeocodeApplies(p) == p = "address"

\* enricher.py:93  result["manufacturing_location"] = geocoded or address_str
WithLocation(res, g) ==
    [res EXCEPT !.manufacturing_location = IF g = "latlon" THEN "lat,lng (label)"
                                           ELSE "formatted address"]

\* variant: the scrape does not depend on what the search returned
ScrapeApplies_Always(w) == TRUE

\* enricher.py:97  "if website:", None and "" being false
ScrapeApplies(w) == w = "url"

\* enricher.py:98  result["company_url"] = website
WithWebsite(res) == [res EXCEPT !.company_url = "url"]

\* enricher.py:102 result["description"] = description
WithDescription(res, d) == [res EXCEPT !.description = IF d = "text" THEN "text" ELSE ""]

\* enricher.py:105 "if not isinstance(filings, Exception) and filings"
HeadcountApplies(f) == f = "some"

\* enricher.py:109 result.update(headcounts)
WithHeadcounts(res, h) ==
    [f \in ResultFields |-> IF f \in DOMAIN h THEN h[f] ELSE res[f]]

\* the state of a record nothing ran on
RecordIdle ==
    /\ rec_pc = "start"
    /\ result = EmptyResult
    /\ profile = "empty"
    /\ filings = "empty"
    /\ threw = "none"
    /\ steps_run = {}
    /\ geocoded = "not_called"

\* variant: no handler, the exception leaves _perform_enrichment
Raised_Propagates(step) ==
    /\ threw' = step
    /\ rec_pc' = "raised"
    /\ UNCHANGED result

\* enricher.py:114-116  except Exception: return result
Raised(step) ==
    /\ threw' = step
    /\ rec_pc' = "returned"
    /\ UNCHANGED result

\* enricher.py:79-85  step 1: profile and filings, gathered with return_exceptions=True
FetchProfileAndFilings ==
    /\ rec_pc = "start"
    /\ \E p \in ({"throw", "empty", "address"}), f \in ({"throw", "empty", "some"}) :
         /\ profile' = p
         /\ filings' = f
    /\ steps_run' = steps_run \cup {"profile", "filings"}
    /\ rec_pc' = "geocode"
    /\ UNCHANGED <<result, threw, geocoded, adaptiveVars, limiterVars, runVars, fetcherVars, auxVars>>

\* enricher.py:87-93  step 2: geocode the registered address
Geocode ==
    /\ rec_pc = "geocode"
    /\ IF GeocodeApplies(profile)
       THEN /\ steps_run' = steps_run \cup {"geocode"}
            /\ \E g \in ({"throw", "none", "latlon"}) :
                 /\ geocoded' = g
                 /\ IF g = "throw" THEN Raised("geocode")
                    ELSE /\ result' = WithLocation(result, g)
                         /\ rec_pc' = "search"
                         /\ UNCHANGED threw
       ELSE /\ rec_pc' = "search"
            /\ UNCHANGED <<result, threw, steps_run, geocoded>>
    /\ UNCHANGED <<profile, filings, adaptiveVars, limiterVars, runVars, fetcherVars, auxVars>>

\* enricher.py:95-98  step 3: find the company website
Search ==
    /\ rec_pc = "search"
    /\ steps_run' = steps_run \cup {"search"}
    /\ \E w \in ({"throw", "none", "url"}) :
         IF w = "throw" THEN Raised("search")
         ELSE /\ result' = IF w = "url" THEN WithWebsite(result) ELSE result
              /\ rec_pc' = IF ScrapeApplies(w) THEN "scrape" ELSE "headcount"
              /\ UNCHANGED threw
    /\ UNCHANGED <<profile, filings, geocoded, adaptiveVars, limiterVars, runVars, fetcherVars, auxVars>>

\* enricher.py:100-102  step 4: scrape the description from the website
Scrape ==
    /\ rec_pc = "scrape"
    /\ steps_run' = steps_run \cup {"scrape"}
    /\ \E d \in ({"throw", "empty", "text"}) :
         IF d = "throw" THEN Raised("scrape")
         ELSE /\ result' = WithDescription(result, d)
              /\ rec_pc' = "headcount"
              /\ UNCHANGED threw
    /\ UNCHANGED <<profile, filings, geocoded, adaptiveVars, limiterVars, runVars, fetcherVars, auxVars>>

\* enricher.py:104-112  step 5: headcounts from the filings, then return
Headcount ==
    /\ rec_pc = "headcount"
    /\ IF HeadcountApplies(filings)
       THEN /\ steps_run' = steps_run \cup {"headcount"}
            /\ \/ Raised("headcount")
               \/ \E h \in ([{"employees_2024", "employees_2023", "employees_2022"} -> {"", "n"}]) :
                    /\ result' = WithHeadcounts(result, h)
                    /\ rec_pc' = "returned"
                    /\ UNCHANGED threw
       ELSE /\ rec_pc' = "returned"
            /\ UNCHANGED <<result, threw, steps_run>>
    /\ UNCHANGED <<profile, filings, geocoded, adaptiveVars, limiterVars, runVars, fetcherVars, auxVars>>

RecordNext ==
    \/ FetchProfileAndFilings
    \/ Geocode
    \/ Search
    \/ Scrape
    \/ Headcount

-----------------------------------------------------------------------------
(* The batch orchestrator: cli.enrich, enrich_dataframe, save_checkpoint   *)

\* the largest number of input rows
MaxRows == 4

\* the largest concurrency argument
MaxConcurrency == 2

\* the largest checkpoint_every argument
MaxCheckpointEvery == 2

Years == {"employees_2024", "employees_2023", "employees_2022"}

\* enricher.py:78-116  the result _perform_enrichment returns when its sub-fetches behave
\* as o says: a throwing step ends the record with the fields filled so far
PerformEnrichment(o) ==
    LET geo   == GeocodeApplies(o.profile)
        stop2 == geo /\ o.geocode = "throw"
        r2    == IF geo /\ ~stop2 THEN WithLocation(EmptyResult, o.geocode) ELSE EmptyResult
        stop3 == stop2 \/ o.search = "throw"
        site  == ~stop3 /\ o.search = "url"
        r3    == IF site THEN WithWebsite(r2) ELSE r2
        stop4 == stop3 \/ (site /\ o.scrape = "throw")
        r4    == IF site /\ ~stop4 THEN WithDescription(r3, o.scrape) ELSE r3
        heads == ~stop4 /\ HeadcountApplies(o.filings) /\ ~o.headcount_throws
    IN  IF heads THEN WithHeadcounts(r4, o.headcounts) ELSE r4

\* the sub-fetch behaviours explored for the rows of a run
AllFound ==
    [profile |-> "address", filings |-> "some", geocode |-> "latlon", search |-> "url",
     scrape |-> "text", headcount_throws |-> FALSE, headcounts |-> [y \in Years |-> "n"]]

SearchThrows == [AllFound EXCEPT !.search = "throw"]

NothingFound ==
    [profile |-> "empty", filings |-> "empty", geocode |-> "none", search |-> "none",
     scrape |-> "empty", headcount_throws |-> FALSE, headcounts |-> [y \in Years |-> ""]]


\* the exception object asyncio.gather returns in the place of a task's result
ExceptionValue == [f \in ResultFields |-> "exception"]

\* variant: a sub-fetch that threw in a finished task of the window empties the others
TaskOutcome_SiblingAbort(row) ==
    [raised |-> ~has_columns,
     value  |-> IF ~has_columns THEN ExceptionValue
                ELSE IF \E j \in 1..Len(batch) :
                          /\ batch_pc[j] = "done"
                          /\ batch[j] # row
                          /\ fetch[batch[j]] = SearchThrows
                     THEN EmptyResult
                     ELSE PerformEnrichment(fetch[row])]

\* enricher.py:63-64  company["CompanyNumber"] raises KeyError outside the try block when
\* the frame lacks the column; otherwise the task returns _perform_enrichment's result
TaskOutcome(row) ==
    [raised |-> ~has_columns,
     value  |-> IF has_columns THEN PerformEnrichment(fetch[row]) ELSE ExceptionValue]

SemaphoreFree_Always == TRUE

\* enricher.py:58  "async with self.semaphore" can be entered
SemaphoreFree == sem_value > 0

GatherResults_CompletionOrder == [k \in 1..Len(batch) |-> batch_out[finished[k]]]

\* enricher.py:183  asyncio.gather returns the tasks' outcomes in the order of the tasks
GatherResults == [j \in 1..Len(batch) |-> batch_out[j]]

Processed_KeepsException(outs) == [j \in 1..Len(outs) |-> outs[j].value]

\* enricher.py:186-198  an outcome that is an exception becomes the all-empty result
Processed(outs) == [j \in 1..Len(outs) |-> IF outs[j].raised THEN EmptyResult ELSE outs[j].value]

\* enricher.py:187-196  the number of progress_tracker.update(success=False) calls
Failures(outs) == Cardinality({j \in 1..Len(outs) : outs[j].raised})

\* enricher.py:195-196  the number of progress_tracker.update(success=True) calls
Successes(outs) == Cardinality({j \in 1..Len(outs) : ~outs[j].raised})

Updates_SuccessOnly(outs) == Successes(outs)

\* enricher.py:186-196, batch.py:153  update is called once for each outcome, on either
\* branch, and each call adds one to processed
Updates(outs) == Successes(outs) + Failures(outs)

PermitsReleased_OnReturnOnly(out) == IF out.raised THEN 0 ELSE 1

\* enricher.py:58-59  leaving "async with self.semaphore" gives the permit back, whether
\* the enrichment returned or raised
PermitsReleased(out) == 1

AllDone_FirstCompleted == \E j \in 1..Len(batch) : batch_pc[j] = "done"

\* enricher.py:183  "await asyncio.gather(...)" returns when every task is done
AllDone == \A j \in 1..Len(batch) : batch_pc[j] = "done"

CheckpointDue_NotLast(offset, blen, total) == offset + blen < total

\* enricher.py:202  the condition under which the window's checkpoint is written
CheckpointDue(offset, blen, total) == offset + blen < total \/ offset + blen = total

AfterWriteFailure_Swallowed == "loop"

\* batch.py:135-137, cli.py:159-162  save_checkpoint logs and re-raises; nothing in
\* enrich_dataframe catches it, so the run is over
AfterWriteFailure == "failed"

\* cli.py:114,152-162  the exit code of the command, -1 while it runs
ExitCode ==
    CASE run_pc = "done" -> 0
      [] run_pc \in {"exit", "failed"} -> 1
      [] OTHER -> -1

\* enricher.py:217-223  _merge_results: the frames side by side, row by row
MergeResults(original, results) ==
    [k \in 1..Len(results) |-> [row |-> original[k], result |-> results[k]]]

\* df.slice(offset): the rows after the first offset ones
Slice(frame, offset) ==
    IF offset >= Len(frame) THEN <<>> ELSE SubSeq(frame, offset + 1, Len(frame))

NoTasks == <<>>

\* a process about to run, nothing enriched yet
RunInit ==
    \E n \in 0..MaxRows, c \in 1..MaxConcurrency, k \in 1..MaxCheckpointEvery :
        /\ input_len = n
        /\ has_columns \in BOOLEAN
        /\ fetch \in [1..n -> {AllFound, SearchThrows, NothingFound}]
        /\ concurrency = c
        /\ checkpoint_every = k
        /\ run_pc = "start"
        /\ df = <<>>
        /\ i = 0
        /\ batch = <<>>
        /\ batch_pc = NoTasks
        /\ batch_out = NoTasks
        /\ finished = <<>>
        /\ sem_value = c
        /\ enriched_results = <<>>
        /\ output_file = <<>>
        /\ file_exists = FALSE
        /\ final_df = <<>>
        /\ checkpoints = 0
        /\ resumed = FALSE
        /\ killed_after = -1
        /\ completed = {}
        /\ pt_processed = 0
    /\ pt_successful = 0
        /\ pt_failed = 0
        /\ write_failed = FALSE
        /\ last_checkpoint = <<>>

RunIdle ==
    /\ input_len = 0
    /\ has_columns = TRUE
    /\ fetch = <<>>
    /\ concurrency = 1
    /\ checkpoint_every = 1
    /\ run_pc = "start"
    /\ df = <<>>
    /\ i = 0
    /\ batch = <<>>
    /\ batch_pc = NoTasks
    /\ batch_out = NoTasks
    /\ finished = <<>>
    /\ sem_value = 1
    /\ enriched_results = <<>>
    /\ output_file = <<>>
    /\ file_exists = FALSE
    /\ final_df = <<>>
    /\ checkpoints = 0
    /\ resumed = FALSE
    /\ killed_after = -1
    /\ completed = {}
    /\ pt_processed = 0
    /\ pt_successful = 0
    /\ pt_failed = 0
    /\ write_failed = FALSE
    /\ last_checkpoint = <<>>

\* enricher.py:150-170  enrich_dataframe up to its loop, on the frame it is given
EnterDataframe(frame) ==
    /\ df' = frame
    /\ enriched_results' = <<>>
    /\ sem_value' = concurrency
    /\ i' = 0
    /\ checkpoints' = 0
    /\ completed' = {}
    /\ pt_processed' = 0
    /\ pt_successful' = 0
    /\ pt_failed' = 0
    /\ run_pc' = "loop"

\* cli.py:109-149  enrich: check the columns, skip the rows of an existing output when
\* resuming, and call enrich_dataframe
CliEnrich ==
    /\ run_pc = "start"
    /\ IF ~has_columns
       THEN /\ run_pc' = "exit"
            /\ UNCHANGED <<df, enriched_results, sem_value, i, checkpoints, completed,
                           pt_processed, pt_successful, pt_failed>>
       ELSE LET start_row == IF resumed /\ file_exists THEN Len(output_file) ELSE 0
            IN  EnterDataframe(Slice([k \in 1..input_len |-> k], start_row))
    /\ UNCHANGED <<input_len, has_columns, fetch, concurrency, checkpoint_every, batch,
                   batch_pc, batch_out, finished, output_file, file_exists, final_df,
                   resumed, killed_after, write_failed, last_checkpoint, adaptiveVars, limiterVars,
                   recordVars, fetcherVars, auxVars>>

\* enricher.py:227-236  enrich_batch: enrich_dataframe called on a frame as it is
EnrichBatch ==
    /\ run_pc = "start"
    /\ ~resumed
    /\ EnterDataframe([k \in 1..input_len |-> k])
    /\ UNCHANGED <<input_len, has_columns, fetch, concurrency, checkpoint_every, batch,
                   batch_pc, batch_out, finished, output_file, file_exists, final_df,
                   resumed, killed_after, write_failed, last_checkpoint, adaptiveVars, limiterVars,
                   recordVars, fetcherVars, auxVars>>

\* enricher.py:173-183  the next window: one task per record, gathered
WindowStart ==
    /\ run_pc = "loop"
    /\ i < Len(df)
    /\ LET batch_end == Min(i + checkpoint_every, Len(df)) IN
       /\ batch' = SubSeq(df, i + 1, batch_end)
       /\ batch_pc' = [j \in 1..(batch_end - i) |-> "created"]
       /\ batch_out' = [j \in 1..(batch_end - i) |-> [raised |-> FALSE, value |-> EmptyResult]]
    /\ finished' = <<>>
    /\ run_pc' = "gather"
    /\ UNCHANGED <<input_len, has_columns, fetch, concurrency, checkpoint_every, df, i,
                   sem_value, enriched_results, output_file, file_exists, final_df,
                   checkpoints, resumed, killed_after, completed, pt_processed, pt_successful,
                   pt_failed, write_failed, last_checkpoint, adaptiveVars, limiterVars,
                   recordVars, fetcherVars, auxVars>>

\* enricher.py:58  a task takes a permit of the semaphore and starts its enrichment
TaskStart(j) ==
    /\ run_pc = "gather"
    /\ batch_pc[j] = "created"
    /\ SemaphoreFree
    /\ sem_value' = sem_value - 1
    /\ batch_pc' = [batch_pc EXCEPT ![j] = "running"]
    /\ UNCHANGED <<input_len, has_columns, fetch, concurrency, checkpoint_every, run_pc, df,
                   i, batch, batch_out, finished, enriched_results, output_file,
                   file_exists, final_df, checkpoints, resumed, killed_after, completed,
                   pt_processed, pt_successful, pt_failed, write_failed, last_checkpoint, adaptiveVars,
                   limiterVars,
                   recordVars, fetcherVars, auxVars>>

\* enricher.py:58-59  the task's enrichment returns or raises; the permit is given back
TaskFinish(j) ==
    /\ run_pc = "gather"
    /\ batch_pc[j] = "running"
    /\ batch_pc' = [batch_pc EXCEPT ![j] = "done"]
    /\ batch_out' = [batch_out EXCEPT ![j] = TaskOutcome(batch[j])]
    /\ finished' = Append(finished, j)
    /\ sem_value' = sem_value + PermitsReleased(TaskOutcome(batch[j]))
    /\ completed' = completed \cup {batch[j]}
    /\ UNCHANGED <<input_len, has_columns, fetch, concurrency, checkpoint_every, run_pc, df,
                   i, batch, enriched_results, output_file, file_exists, final_df,
                   checkpoints, resumed, killed_after, pt_processed, pt_successful, pt_failed,
                   write_failed, last_checkpoint, adaptiveVars, limiterVars, recordVars,
                   fetcherVars, auxVars>>

\* enricher.py:183-205, batch.py:99-137  the gather is over: the window's results are
\* appended in order, the progress tracker is updated, and the rows enriched so far are
\* written over the output file. A write that fails leaves the file as it was or with
\* a part of the new rows, and ends the run.
GatherDone ==
    /\ run_pc = "gather"
    /\ AllDone
    /\ LET outs    == GatherResults
           results == enriched_results \o Processed(outs)
           rows    == MergeResults(SubSeq(df, 1, Len(results)), results)
       IN  /\ enriched_results' = results
           /\ pt_processed' = pt_processed + Updates(outs)
           /\ pt_successful' = pt_successful + Successes(outs)
           /\ pt_failed' = pt_failed + Failures(outs)
           /\ IF CheckpointDue(i, Len(batch), Len(df))
              THEN \/ /\ output_file' = rows
                      /\ file_exists' = TRUE
                      /\ checkpoints' = checkpoints + 1
                      /\ i' = i + checkpoint_every
                      /\ run_pc' = "loop"
                      /\ last_checkpoint' = rows
                      /\ UNCHANGED write_failed
                   \/ /\ \/ UNCHANGED <<output_file, file_exists>>
                         \/ \E m \in 0..Len(rows) :
                               /\ output_file' = SubSeq(rows, 1, m)
                               /\ file_exists' = TRUE
                      /\ write_failed' = TRUE
                      /\ run_pc' = AfterWriteFailure
                      /\ UNCHANGED <<checkpoints, i, last_checkpoint>>
              ELSE /\ i' = i + checkpoint_every
                   /\ run_pc' = "loop"
                   /\ UNCHANGED <<output_file, file_exists, checkpoints, write_failed,
                                  last_checkpoint>>
    /\ UNCHANGED <<input_len, has_columns, fetch, concurrency, checkpoint_every, df, batch,
                   batch_pc, batch_out, finished, sem_value, final_df, resumed,
                   killed_after, completed, adaptiveVars, limiterVars, recordVars,
                   fetcherVars, auxVars>>

\* enricher.py:207-214  the loop is over: the final merge is returned
Finalize ==
    /\ run_pc = "loop"
    /\ i >= Len(df)
    /\ final_df' = MergeResults(df, enriched_results)
    /\ run_pc' = "done"
    /\ UNCHANGED <<input_len, has_columns, fetch, concurrency, checkpoint_every, df, i,
                   batch, batch_pc, batch_out, finished, sem_value, enriched_results,
                   output_file, file_exists, checkpoints, resumed, killed_after,
                   completed, pt_processed, pt_successful, pt_failed, write_failed, last_checkpoint,
                   adaptiveVars,
                   limiterVars, recordVars, fetcherVars, auxVars>>

\* the process is killed during its first run: only the output file survives
Kill ==
    /\ run_pc \in {"loop", "gather"}
    /\ ~resumed
    /\ killed_after' = checkpoints
    /\ run_pc' = "killed"
    /\ df' = <<>>
    /\ i' = 0
    /\ batch' = <<>>
    /\ batch_pc' = NoTasks
    /\ batch_out' = NoTasks
    /\ finished' = <<>>
    /\ sem_value' = concurrency
    /\ enriched_results' = <<>>
    /\ checkpoints' = 0
    /\ completed' = {}
    /\ pt_processed' = 0
    /\ pt_successful' = 0
    /\ pt_failed' = 0
    /\ UNCHANGED <<input_len, has_columns, fetch, concurrency, checkpoint_every,
                   output_file, file_exists, final_df, resumed, write_failed, last_checkpoint,
                   adaptiveVars,
                   limiterVars, recordVars, fetcherVars, auxVars>>

\* batch.py:124-128, cli.py:156-158  the run is interrupted while save_checkpoint is
\* writing: write_csv has opened the output path itself, so the file is left with the
\* part of the new rows written so far
KillDuringWrite ==
    /\ run_pc = "gather"
    /\ AllDone
    /\ ~resumed
    /\ LET results == enriched_results \o Processed(GatherResults)
           rows    == MergeResults(SubSeq(df, 1, Len(results)), results)
       IN  \E m \in 0..(Len(rows) - 1) : output_file' = SubSeq(rows, 1, m)
    /\ file_exists' = TRUE
    /\ killed_after' = checkpoints
    /\ run_pc' = "killed"
    /\ df' = <<>>
    /\ i' = 0
    /\ batch' = <<>>
    /\ batch_pc' = NoTasks
    /\ batch_out' = NoTasks
    /\ finished' = <<>>
    /\ sem_value' = concurrency
    /\ enriched_results' = <<>>
    /\ checkpoints' = 0
    /\ completed' = {}
    /\ pt_processed' = 0
    /\ pt_successful' = 0
    /\ pt_failed' = 0
    /\ UNCHANGED <<input_len, has_columns, fetch, concurrency, checkpoint_every, final_df,
                   resumed, write_failed, last_checkpoint, adaptiveVars, limiterVars,
                   recordVars, fetcherVars, auxVars>>

\* cli.py:77-81  the command is run again on the same input, with --resume
Resume ==
    /\ run_pc = "killed"
    /\ resumed' = TRUE
    /\ run_pc' = "start"
    /\ UNCHANGED <<input_len, has_columns, fetch, concurrency, checkpoint_every, df, i,
                   batch, batch_pc, batch_out, finished, sem_value, enriched_results,
                   output_file, file_exists, final_df, checkpoints, killed_after,
                   completed, pt_processed, pt_successful, pt_failed, write_failed, last_checkpoint,
                   adaptiveVars,
                   limiterVars, recordVars, fetcherVars, auxVars>>

RunNext ==
    \/ CliEnrich
    \/ EnrichBatch
    \/ WindowStart
    \/ \E j \in 1..Len(batch) : TaskStart(j)
    \/ \E j \in 1..Len(batch) : TaskFinish(j)
    \/ GatherDone
    \/ Finalize
    \/ Kill
    \/ KillDuringWrite
    \/ Resume

-----------------------------------------------------------------------------
(* The cached decorator: cache.py                                          *)
\* the distinct argument tuples the wrapper is called with
MaxArgs == 2

\* the calls of the wrapper in one run of the model
MaxCalls == 3

CacheArgs == 1..MaxArgs

\* The value a run of the decorated function gives is named by its number: the
\* n-th run with argument a gives n.  Calls are made within the time to live
\* and the store is far below its size limit, so no entry expires or is
\* evicted between them.

\* cache.py:73: cache.set serialises the value; the wrapper is a plain function,
\* so for a coroutine function the value is the coroutine object that
\* func(*args, **kwargs) returns un-awaited, which cannot be serialised.
Storable == ~wrapped_async

\* cache.py:66-67, where the wrapper goes when cache.get raises
AfterGetError_Propagates == "raised"

AfterGetError == "call"

\* cache.py:74-75, where the wrapper goes when cache.set raises
AfterSetError == "returned"

CacheInit ==
    /\ wrapped_async \in BOOLEAN
    /\ store = [a \in CacheArgs |-> 0]
    /\ invoked = [a \in CacheArgs |-> 0]
    /\ calls_made = 0
    /\ wrap_pc = "idle"
    /\ wrap_arg = 1
    /\ wrap_result = 0
    /\ wrap_invocations = 0
    /\ wrap_repeat = FALSE
    /\ get_raised = FALSE
    /\ set_raised = FALSE
    /\ faulted = FALSE
    /\ first_result = [a \in CacheArgs |-> 0]

CacheIdle ==
    /\ wrapped_async = TRUE
    /\ store = [a \in CacheArgs |-> 0]
    /\ invoked = [a \in CacheArgs |-> 0]
    /\ calls_made = 0
    /\ wrap_pc = "idle"
    /\ wrap_arg = 1
    /\ wrap_result = 0
    /\ wrap_invocations = 0
    /\ wrap_repeat = FALSE
    /\ get_raised = FALSE
    /\ set_raised = FALSE
    /\ faulted = FALSE
    /\ first_result = [a \in CacheArgs |-> 0]

\* the first value returned for an argument is kept for comparison
Returning(v) ==
    first_result' = IF first_result[wrap_arg] = 0
                    THEN [first_result EXCEPT ![wrap_arg] = v]
                    ELSE first_result

\* wrapper is entered: get_cache() and the key (cache.py:50-59), outside any try
WrapperCall(a) ==
    /\ wrap_pc \in {"idle", "returned", "raised"}
    /\ calls_made < MaxCalls
    /\ calls_made' = calls_made + 1
    /\ wrap_arg' = a
    /\ wrap_result' = 0
    /\ wrap_invocations' = 0
    /\ wrap_repeat' = (first_result[a] # 0)
    /\ get_raised' = FALSE
    /\ set_raised' = FALSE
    /\ \E opened \in BOOLEAN :
          /\ wrap_pc' = IF opened THEN "get" ELSE "raised"
          /\ faulted' = (faulted \/ ~opened)
    /\ UNCHANGED <<wrapped_async, store, invoked, first_result, filingVars, searchVars,
                   coreVars, auxVars>>

\* cache.py:62-67
CacheGet ==
    /\ wrap_pc = "get"
    /\ \E ok \in BOOLEAN :
          IF ~ok
          THEN /\ get_raised' = TRUE
               /\ faulted' = TRUE
               /\ wrap_pc' = AfterGetError
               /\ UNCHANGED <<wrap_result, first_result>>
          ELSE IF store[wrap_arg] # 0
          THEN /\ wrap_result' = store[wrap_arg]
               /\ wrap_pc' = "returned"
               /\ Returning(store[wrap_arg])
               /\ UNCHANGED <<get_raised, faulted>>
          ELSE /\ wrap_pc' = "call"
               /\ UNCHANGED <<wrap_result, first_result, get_raised, faulted>>
    /\ UNCHANGED <<wrapped_async, store, invoked, calls_made, wrap_arg, wrap_invocations,
                   wrap_repeat, set_raised, filingVars, searchVars, coreVars, auxVars>>

\* cache.py:70
InvokeFunc ==
    /\ wrap_pc = "call"
    /\ invoked' = [invoked EXCEPT ![wrap_arg] = @ + 1]
    /\ wrap_invocations' = wrap_invocations + 1
    /\ wrap_result' = invoked[wrap_arg] + 1
    /\ wrap_pc' = "set"
    /\ UNCHANGED <<wrapped_async, store, calls_made, wrap_arg, wrap_repeat, get_raised,
                   set_raised, faulted, first_result, filingVars, searchVars, coreVars, auxVars>>

\* cache.py:72-77
CacheSet ==
    /\ wrap_pc = "set"
    /\ \E ok \in BOOLEAN :
          /\ faulted' = (faulted \/ ~ok)
          /\ IF ok /\ Storable
             THEN /\ store' = [store EXCEPT ![wrap_arg] = wrap_result]
                  /\ wrap_pc' = "returned"
                  /\ UNCHANGED set_raised
             ELSE /\ set_raised' = TRUE
                  /\ wrap_pc' = AfterSetError
                  /\ UNCHANGED store
    /\ Returning(wrap_result)
    /\ UNCHANGED <<wrapped_async, invoked, calls_made, wrap_arg, wrap_result,
                   wrap_invocations, wrap_repeat, get_raised, filingVars, searchVars,
                   coreVars, auxVars>>

CacheNext ==
    \/ \E a \in CacheArgs : WrapperCall(a)
    \/ CacheGet
    \/ InvokeFunc
    \/ CacheSet

-----------------------------------------------------------------------------
(* Headcount extraction: fetchers/companies_house.py                       *)
\* the filings of one company's filing history
MaxFilings == 3

\* companies_house.py:173
TrackedYears == {"2024", "2023", "2022"}

\* The filing lists explored.  year is made_up_date[:4] of a filing; "other": a year
\* outside the tracked ones, "none": made_up_date missing or shorter than four
\* characters (168-170).  outcome is what handling a filing meets once its year is
\* tracked and not yet filled:
\*   "no_link"     no document_metadata link or an empty document id (181-188)
\*   "malformed"   links is not a mapping: links.get raises (181-182)
\*   "no_content"  get_document_content returns b"": the download failed (95-120)
\*                 or the document is empty (191-193)
\*   "no_count"    both extractors return None or raise (196-210)
\*   "count"       an extractor returns a count (213-214)

\* companies_house.py:177: headcounts.get(f"employees_{year}") is truthy.  The
\* value held is str(employee_count), non-empty for every count, so the test is
\* whether the year has been filled.  The count of the k-th filing is named k.
AlreadyFilled_Never(y) == FALSE

AlreadyFilled(y) == headcounts[y] # 0

\* companies_house.py:217-219, where the loop goes when handling a filing raises
AfterFilingError_Abort == "raised"

AfterFilingError == "loop"

\* companies_house.py:154-163; the enricher always passes its http client
\* (enricher.py:104-109), so the client is present
FilingInit ==
    /\ filing_list \in UNION {[1..n ->
                                [year : TrackedYears \union {"other", "none"},
                                 outcome : {"no_link", "malformed", "no_content",
                                            "no_count", "count"}]] : n \in 0..MaxFilings}
    /\ fi = 0
    /\ headcounts = [y \in TrackedYears |-> 0]
    /\ doc_fetches = {}
    /\ extract_pc = "loop"

FilingIdle ==
    /\ filing_list = <<>>
    /\ fi = 0
    /\ headcounts = [y \in TrackedYears |-> 0]
    /\ doc_fetches = {}
    /\ extract_pc = "loop"

\* companies_house.py:165-219, one iteration of the loop
ProcessFiling ==
    /\ extract_pc = "loop"
    /\ fi < Len(filing_list)
    /\ LET k == fi + 1
           f == filing_list[k]
       IN  /\ fi' = k
           /\ IF f.year \notin TrackedYears
              THEN UNCHANGED <<headcounts, doc_fetches, extract_pc>>
              ELSE IF AlreadyFilled(f.year)
              THEN UNCHANGED <<headcounts, doc_fetches, extract_pc>>
              ELSE IF f.outcome = "malformed"
              THEN /\ extract_pc' = AfterFilingError
                   /\ UNCHANGED <<headcounts, doc_fetches>>
              ELSE IF f.outcome = "no_link"
              THEN UNCHANGED <<headcounts, doc_fetches, extract_pc>>
              ELSE /\ doc_fetches' = doc_fetches \union {k}
                   /\ headcounts' = IF f.outcome = "count"
                                    THEN [headcounts EXCEPT ![f.year] = k]
                                    ELSE headcounts
                   /\ UNCHANGED extract_pc
    /\ UNCHANGED <<filing_list, cacheVars, searchVars, coreVars, auxVars>>

\* companies_house.py:160-161 for an empty list, 221 after the loop
ReturnHeadcounts ==
    /\ extract_pc = "loop"
    /\ fi = Len(filing_list)
    /\ extract_pc' = "returned"
    /\ UNCHANGED <<filing_list, fi, headcounts, doc_fetches, cacheVars, searchVars,
                   coreVars, auxVars>>

FilingNext ==
    \/ ProcessFiling
    \/ ReturnHeadcounts

-----------------------------------------------------------------------------
(* The website search of a run's records: enricher.py, web_search.py       *)
\* the records of a run whose website search is followed
MaxSearches == 3

SearchTasks == 1..MaxSearches

\* enricher.py:96 passes self.rate_limiter, web_search.py:114 and 60-61 hand it
\* to the searcher made for the call: the instance a record's search acquires from
SearchLimiter == enricher_limiter

\* web_search.py:68 comes before 74-78: the provider is called once acquire
\* has returned
ProviderReady_NoAcquire(t) == search_pc[t] \in {"acquiring", "acquired"}

ProviderReady(t) == search_pc[t] = "acquired"

SearchInit ==
    /\ limiters_built = 0
    /\ enricher_limiter = 0
    /\ search_pc = [t \in SearchTasks |-> "idle"]
    /\ search_limiter = [t \in SearchTasks |-> 0]
    /\ search_acquires = [t \in SearchTasks |-> 0]
    /\ provider_calls = [t \in SearchTasks |-> 0]

SearchIdle == SearchInit

\* enricher.py:160 and 25-29: the run's one CompanyEnricher builds its RateLimiter
CreateEnricher ==
    /\ enricher_limiter = 0
    /\ limiters_built' = limiters_built + 1
    /\ enricher_limiter' = limiters_built + 1
    /\ UNCHANGED <<search_pc, search_limiter, search_acquires, provider_calls, cacheVars,
                   filingVars, coreVars, auxVars>>

\* enricher.py:95-96, web_search.py:112-115 and 63-68: step 3 of a record reaches
\* "await self.rate_limiter.acquire()".  The cached wrapper around
\* search_company_website holds no entry for a coroutine function (Storable),
\* so the body runs on every call.
SearchStart(t) ==
    /\ enricher_limiter # 0
    /\ search_pc[t] = "idle"
    /\ search_pc' = [search_pc EXCEPT ![t] = "acquiring"]
    /\ search_limiter' = [search_limiter EXCEPT ![t] = SearchLimiter]
    /\ UNCHANGED <<limiters_built, enricher_limiter, search_acquires, provider_calls,
                   cacheVars, filingVars, coreVars, auxVars>>

\* web_search.py:68: acquire(), of one token, returns
AcquireReturns(t) ==
    /\ search_pc[t] = "acquiring"
    /\ search_pc' = [search_pc EXCEPT ![t] = "acquired"]
    /\ search_acquires' = [search_acquires EXCEPT ![t] = @ + 1]
    /\ UNCHANGED <<limiters_built, enricher_limiter, search_limiter, provider_calls,
                   cacheVars, filingVars, coreVars, auxVars>>

\* web_search.py:74-78: DDGS().text(...) in the executor
ProviderCall(t) ==
    /\ ProviderReady(t)
    /\ search_pc' = [search_pc EXCEPT ![t] = "called"]
    /\ provider_calls' = [provider_calls EXCEPT ![t] = @ + 1]
    /\ UNCHANGED <<limiters_built, enricher_limiter, search_limiter, search_acquires,
                   cacheVars, filingVars, coreVars, auxVars>>

\* web_search.py:80-108: a url, None, or None after a caught exception
SearchEnd(t) ==
    /\ search_pc[t] = "called"
    /\ search_pc' = [search_pc EXCEPT ![t] = "done"]
    /\ UNCHANGED <<limiters_built, enricher_limiter, search_limiter, search_acquires,
                   provider_calls, cacheVars, filingVars, coreVars, auxVars>>

SearchNext ==
    \/ CreateEnricher
    \/ \E t \in SearchTasks : SearchStart(t)
    \/ \E t \in SearchTasks : AcquireReturns(t)
    \/ \E t \in SearchTasks : ProviderCall(t)
    \/ \E t \in SearchTasks : SearchEnd(t)

-----------------------------------------------------------------------------
(* The windows of a run with the semaphore and the limiter's lock          *)
\* the records of a run
MaxGateRows == 4

\* the largest concurrency argument
MaxGateConcurrency == 2

\* the largest checkpoint_every argument, the size of a full window
MaxGateWindow == 3

GateTasks == 1..MaxGateWindow

\* variant: leaving acquire does not release the lock
LockAfterAcquire_Kept(t) == t

\* rate_limiter.py:35  the end of "async with self._lock": nobody holds the lock
LockAfterAcquire(t) == 0

\* enricher.py:174-175  the number of records of the window starting at offset
WindowLen(offset) == Min(offset + gate_window, gate_total) - offset

\* enricher.py:150-170, 25-29  enrich_dataframe before its loop
GateInit ==
    \E n \in 0..MaxGateRows, c \in 1..MaxGateConcurrency, w \in 1..MaxGateWindow :
        /\ gate_total = n
        /\ gate_concurrency = c
        /\ gate_window = w
        /\ gate_offset = 0
        /\ gate_main = "loop"
        /\ gate_pc = [t \in GateTasks |-> "none"]
        /\ gate_sem = c
        /\ gate_lock = 0
        /\ gate_queue = <<>>

GateIdle ==
    /\ gate_total = 0
    /\ gate_concurrency = 1
    /\ gate_window = 1
    /\ gate_offset = 0
    /\ gate_main = "loop"
    /\ gate_pc = [t \in GateTasks |-> "none"]
    /\ gate_sem = 1
    /\ gate_lock = 0
    /\ gate_queue = <<>>

\* enricher.py:173-183  the next window: one task per record, gathered
GateWindowStart ==
    /\ gate_main = "loop"
    /\ gate_offset < gate_total
    /\ gate_pc' = [t \in GateTasks |->
                     IF t <= WindowLen(gate_offset) THEN "created" ELSE "none"]
    /\ gate_main' = "gather"
    /\ UNCHANGED <<gate_total, gate_concurrency, gate_window, gate_offset, gate_sem,
                   gate_lock, gate_queue, geoVars, batchVars, burstVars, coreVars,
                   fetcherVars>>

\* enricher.py:58  the task enters "async with self.semaphore"
GateTaskStart(t) ==
    /\ gate_pc[t] = "created"
    /\ gate_sem > 0
    /\ gate_sem' = gate_sem - 1
    /\ gate_pc' = [gate_pc EXCEPT ![t] = "running"]
    /\ UNCHANGED <<gate_total, gate_concurrency, gate_window, gate_offset, gate_main,
                   gate_lock, gate_queue, geoVars, batchVars, burstVars, coreVars,
                   fetcherVars>>

\* enricher.py:79-96, web_search.py:68  steps 1 and 2 are over and the search calls
\* acquire, which queues for the limiter's lock
GateReachSearch(t) ==
    /\ gate_pc[t] = "running"
    /\ gate_pc' = [gate_pc EXCEPT ![t] = "lock_wait"]
    /\ gate_queue' = Append(gate_queue, t)
    /\ UNCHANGED <<gate_total, gate_concurrency, gate_window, gate_offset, gate_main,
                   gate_sem, gate_lock, geoVars, batchVars, burstVars, coreVars,
                   fetcherVars>>

\* enricher.py:58-59, 63-64, 114-116  the enrichment is over before the search: the
\* record lacks a column or step 1 or 2 threw; the permit is given back
GateTaskEndsEarly(t) ==
    /\ gate_pc[t] = "running"
    /\ gate_pc' = [gate_pc EXCEPT ![t] = "done"]
    /\ gate_sem' = gate_sem + 1
    /\ UNCHANGED <<gate_total, gate_concurrency, gate_window, gate_offset, gate_main,
                   gate_lock, gate_queue, geoVars, batchVars, burstVars, coreVars,
                   fetcherVars>>

\* rate_limiter.py:35-56  the first waiter enters the free lock; with tokens at hand it
\* debits and leaves the lock at once, otherwise it sleeps inside it
GateLock(t) ==
    /\ gate_pc[t] = "lock_wait"
    /\ gate_lock = 0
    /\ gate_queue # <<>> /\ Head(gate_queue) = t
    /\ gate_queue' = Tail(gate_queue)
    /\ \/ /\ gate_pc' = [gate_pc EXCEPT ![t] = "searched"]
          /\ gate_lock' = LockAfterAcquire(t)
       \/ /\ gate_pc' = [gate_pc EXCEPT ![t] = "sleeping"]
          /\ gate_lock' = t
    /\ UNCHANGED <<gate_total, gate_concurrency, gate_window, gate_offset, gate_main,
                   gate_sem, geoVars, batchVars, burstVars, coreVars, fetcherVars>>

\* rate_limiter.py:50-56  the sleep is over: debit and leave the lock
GateWake(t) ==
    /\ gate_pc[t] = "sleeping"
    /\ gate_pc' = [gate_pc EXCEPT ![t] = "searched"]
    /\ gate_lock' = LockAfterAcquire(t)
    /\ UNCHANGED <<gate_total, gate_concurrency, gate_window, gate_offset, gate_main,
                   gate_sem, gate_queue, geoVars, batchVars, burstVars, coreVars,
                   fetcherVars>>

\* enricher.py:58-59, 96-116  the search and the later steps complete or fail, the
\* enrichment returns and the permit is given back
GateTaskFinish(t) ==
    /\ gate_pc[t] = "searched"
    /\ gate_pc' = [gate_pc EXCEPT ![t] = "done"]
    /\ gate_sem' = gate_sem + 1
    /\ UNCHANGED <<gate_total, gate_concurrency, gate_window, gate_offset, gate_main,
                   gate_lock, gate_queue, geoVars, batchVars, burstVars, coreVars,
                   fetcherVars>>

\* enricher.py:183-205  the gather returns and the loop goes to the next window
GateGatherDone ==
    /\ gate_main = "gather"
    /\ \A t \in GateTasks : gate_pc[t] \in {"none", "done"}
    /\ gate_offset' = gate_offset + gate_window
    /\ gate_main' = "loop"
    /\ UNCHANGED <<gate_total, gate_concurrency, gate_window, gate_pc, gate_sem,
                   gate_lock, gate_queue, geoVars, batchVars, burstVars, coreVars,
                   fetcherVars>>

\* enricher.py:207-214  the loop is over
GateFinish ==
    /\ gate_main = "loop"
    /\ gate_offset >= gate_total
    /\ gate_main' = "done"
    /\ UNCHANGED <<gate_total, gate_concurrency, gate_window, gate_offset, gate_pc,
                   gate_sem, gate_lock, gate_queue, geoVars, batchVars, burstVars,
                   coreVars, fetcherVars>>

GateNext ==
    \/ GateWindowStart
    \/ \E t \in GateTasks : GateTaskStart(t)
    \/ \E t \in GateTasks : GateReachSearch(t)
    \/ \E t \in GateTasks : GateTaskEndsEarly(t)
    \/ \E t \in GateTasks : GateLock(t)
    \/ \E t \in GateTasks : GateWake(t)
    \/ \E t \in GateTasks : GateTaskFinish(t)
    \/ GateGatherDone
    \/ GateFinish

-----------------------------------------------------------------------------
(* Nominatim requests of concurrent records: fetchers/geocoder.py          *)
\* ticks per second of the geocoder's clock
GeoTicksPerSecond == 10

\* the records geocoding in one window
MaxGeoTasks == 2

\* the last tick at which a record's geocoding starts
MaxGeoStart == 2

GeoTasks == 1..MaxGeoTasks

GeoInit ==
    /\ geo_now = 0
    /\ geo_pc = [t \in GeoTasks |-> "idle"]
    /\ geo_wake = [t \in GeoTasks |-> 0]
    /\ geo_requests = <<>>

\* enricher.py:92, geocoder.py:115-123, 20-32, 72-74  step 2 of a record reaches
\* _geocode_nominatim (no OpenCage key, or OpenCage found nothing) and starts its sleep,
\* asyncio.sleep(1.1) in ticks
GeocodeStart(t) ==
    /\ geo_pc[t] = "idle"
    /\ geo_now <= MaxGeoStart
    /\ geo_pc' = [geo_pc EXCEPT ![t] = "sleeping"]
    /\ geo_wake' = [geo_wake EXCEPT ![t] = geo_now + (11 * GeoTicksPerSecond) \div 10]
    /\ UNCHANGED <<geo_now, geo_requests, gateVars, batchVars, burstVars, coreVars,
                   fetcherVars>>

\* geocoder.py:76-94  the sleep is over and the request is sent
NominatimRequest(t) ==
    /\ geo_pc[t] = "sleeping"
    /\ geo_now >= geo_wake[t]
    /\ geo_pc' = [geo_pc EXCEPT ![t] = "requested"]
    /\ geo_requests' = Append(geo_requests, geo_now)
    /\ UNCHANGED <<geo_now, geo_wake, gateVars, batchVars, burstVars, coreVars,
                   fetcherVars>>

\* time passes, up to the last wake-up
GeoTick ==
    /\ \/ geo_now < MaxGeoStart
       \/ \E t \in GeoTasks : geo_pc[t] = "sleeping" /\ geo_now < geo_wake[t]
    /\ geo_now' = geo_now + 1
    /\ UNCHANGED <<geo_pc, geo_wake, geo_requests, gateVars, batchVars, burstVars,
                   coreVars, fetcherVars>>

GeoNext ==
    \/ \E t \in GeoTasks : GeocodeStart(t)
    \/ \E t \in GeoTasks : NominatimRequest(t)
    \/ GeoTick

-----------------------------------------------------------------------------
(* BatchProcessor.process_items: pipeline/batch.py                         *)
\* the largest len(items)
MaxItems == 6

\* the largest batch_size
MaxBatchSize == 3

\* the largest checkpoint_every
MaxEvery == 3

\* batch.py:58-59  "self.checkpoint_callback and processed_count % checkpoint_every == 0",
\* for a processor built with a callback
CallbackDue(count) == count % bp_checkpoint_every = 0

\* batch.py:17-25, 44-45  a processor with a checkpoint callback, process_items entered
BatchInit ==
    \E n \in 0..MaxItems, b \in 1..MaxBatchSize, k \in 1..MaxEvery :
        /\ items_len = n
        /\ batch_size = b
        /\ bp_checkpoint_every = k
        /\ bp_offset = 0
        /\ results_len = 0
        /\ processed_count = 0
        /\ callback_calls = 0
        /\ callback_arg = 0
        /\ bp_pc = "loop"

BatchIdle ==
    /\ items_len = 0
    /\ batch_size = 1
    /\ bp_checkpoint_every = 1
    /\ bp_offset = 0
    /\ results_len = 0
    /\ processed_count = 0
    /\ callback_calls = 0
    /\ callback_arg = 0
    /\ bp_pc = "loop"

\* batch.py:48-62  one batch: its results are added, the count grows by its length, and
\* the callback is given results[:processed_count] when the count is a multiple
ProcessBatch ==
    /\ bp_pc = "loop"
    /\ bp_offset < items_len
    /\ LET blen  == Min(batch_size, items_len - bp_offset)
           count == processed_count + blen
       IN  /\ results_len' = results_len + blen
           /\ processed_count' = count
           /\ IF CallbackDue(count)
              THEN /\ callback_calls' = callback_calls + 1
                   /\ callback_arg' = Min(count, results_len + blen)
              ELSE UNCHANGED <<callback_calls, callback_arg>>
    /\ bp_offset' = bp_offset + batch_size
    /\ UNCHANGED <<items_len, batch_size, bp_checkpoint_every, bp_pc, gateVars, geoVars,
                   burstVars, coreVars, fetcherVars>>

\* batch.py:48, 64  the loop is over
ReturnResults ==
    /\ bp_pc = "loop"
    /\ bp_offset >= items_len
    /\ bp_pc' = "returned"
    /\ UNCHANGED <<items_len, batch_size, bp_checkpoint_every, bp_offset, results_len,
                   processed_count, callback_calls, callback_arg, gateVars, geoVars,
                   burstVars, coreVars, fetcherVars>>

BatchNext ==
    \/ ProcessBatch
    \/ ReturnResults

-----------------------------------------------------------------------------
(* RateLimiter.__init__ on fractional rates                                *)
\* the largest max_rate, in twentieths
MaxRateTwentieths == 50

\* the largest burst_size argument
MaxBurstArg == 2

\* rate_limiter.py:23  max(1, int(max_rate * 2)), max_rate = r / 20; int drops the
\* fraction of its positive argument
DefaultBurstOf(r) ==
    LET truncated == (2 * r) \div 20
    IN  IF truncated > 1 THEN truncated ELSE 1

BurstInit ==
    /\ ctor_rate \in 1..MaxRateTwentieths
    /\ ctor_burst \in 0..MaxBurstArg
    /\ built_burst = -1

BurstIdle ==
    /\ ctor_rate = 20
    /\ ctor_burst = 0
    /\ built_burst = -1

\* rate_limiter.py:14-26  self.burst_size = burst_size or max(1, int(max_rate * 2))
Construct ==
    /\ built_burst = -1
    /\ built_burst' = IF ctor_burst = 0 THEN DefaultBurstOf(ctor_rate) ELSE ctor_burst
    /\ UNCHANGED <<ctor_rate, ctor_burst, gateVars, geoVars, batchVars, coreVars,
                   fetcherVars>>

BurstNext == Construct

-----------------------------------------------------------------------------
(* Specifications                                                          *)

AuxIdle == GateIdle /\ GeoInit /\ BatchIdle /\ BurstIdle

FetchersIdle == CacheIdle /\ FilingIdle /\ SearchIdle /\ AuxIdle

InitLimiter == LimiterInit /\ AdaptiveIdle /\ RecordIdle /\ RunIdle /\ FetchersIdle

SpecLimiter == InitLimiter /\ [][LimiterNext]_vars

\* the event loop runs every task that is ready (the lock is handed to the first waiter,
\* a sleeper whose delay is over is resumed) and the clock advances
LimiterFairness ==
    /\ WF_vars(Tick)
    /\ \A t \in Tasks : WF_vars(AcquireLocked(t)) /\ WF_vars(AcquireWake(t))

SpecLimiterLive == InitLimiter /\ [][LimiterNext]_vars /\ LimiterFairness

InitAdaptive == AdaptiveInit /\ LimiterIdle /\ RecordIdle /\ RunIdle /\ FetchersIdle

SpecAdaptive == InitAdaptive /\ [][AdaptiveNext]_vars

\* the caller goes on reporting outcomes: record_success is always possible, so a
\* run in which the calls never stop has infinitely many of them
SpecAdaptiveLive == InitAdaptive /\ [][AdaptiveNext]_vars /\ WF_vars(record_success)

InitRecord == RecordIdle /\ LimiterIdle /\ AdaptiveIdle /\ RunIdle /\ FetchersIdle

SpecRecord == InitRecord /\ [][RecordNext]_vars

CoreIdle == LimiterIdle /\ AdaptiveIdle /\ RecordIdle /\ RunIdle

InitCache == CacheInit /\ FilingIdle /\ SearchIdle /\ CoreIdle /\ AuxIdle

SpecCache == InitCache /\ [][CacheNext]_vars

InitFilings == FilingInit /\ CacheIdle /\ SearchIdle /\ CoreIdle /\ AuxIdle

SpecFilings == InitFilings /\ [][FilingNext]_vars

InitSearch == SearchInit /\ CacheIdle /\ FilingIdle /\ CoreIdle /\ AuxIdle

SpecSearch == InitSearch /\ [][SearchNext]_vars

AllButAuxIdle == CoreIdle /\ CacheIdle /\ FilingIdle /\ SearchIdle

InitGate == GateInit /\ GeoInit /\ BatchIdle /\ BurstIdle /\ AllButAuxIdle

\* every sub-fetch completes or fails, and the event loop runs every task that can run
GateFairness ==
    /\ WF_vars(GateWindowStart)
    /\ \A t \in GateTasks :
          /\ WF_vars(GateTaskStart(t))
          /\ WF_vars(GateReachSearch(t) \/ GateTaskEndsEarly(t))
          /\ WF_vars(GateLock(t))
          /\ WF_vars(GateWake(t))
          /\ WF_vars(GateTaskFinish(t))
    /\ WF_vars(GateGatherDone)
    /\ WF_vars(GateFinish)

SpecGate == InitGate /\ [][GateNext]_vars /\ GateFairness

InitGeo == GeoInit /\ GateIdle /\ BatchIdle /\ BurstIdle /\ AllButAuxIdle

SpecGeo == InitGeo /\ [][GeoNext]_vars

InitBatch == BatchInit /\ GateIdle /\ GeoInit /\ BurstIdle /\ AllButAuxIdle

SpecBatch == InitBatch /\ [][BatchNext]_vars

InitBurst == BurstInit /\ GateIdle /\ GeoInit /\ BatchIdle /\ AllButAuxIdle

SpecBurst == InitBurst /\ [][BurstNext]_vars

Init == RunInit /\ LimiterIdle /\ AdaptiveIdle /\ RecordIdle /\ FetchersIdle

Next == RunNext

Spec == Init /\ [][Next]_vars

-----------------------------------------------------------------------------
(* Properties of RateLimiter                                               *)

\* C4 (as claimed): with cost-1 acquires only, the (burst_size + k)-th acquire to return
\* does so no earlier than k / max_rate seconds after the first one returned.
RateBound ==
    (unit_costs /\ granted > burst_size)
        => (last_grant - first_grant) * max_rate >= (granted - burst_size) * TicksPerSecond

\* C6: the stored token count stays within [0, burst_size] and available_tokens()
\* returns a value in [0, burst_size], in every state.
TokenBucketBound ==
    /\ 0 <= tokens /\ tokens <= Scaled(burst_size)
    /\ 0 <= available_tokens /\ available_tokens <= burst_size

\* C6 witness: after an acquire costing more than one token slept and emptied the bucket,
\* enough time has passed for the refill to be cut off at burst_size.
TokenBucketBoundWitness ==
    /\ granted >= 2
    /\ ~unit_costs
    /\ last_grant > first_grant
    /\ tokens = 0
    /\ tokens + (now - last_update) * max_rate > Scaled(burst_size)
    /\ available_tokens = burst_size

\* C11: every call to acquire(cost) with cost >= 1 on a limiter whose rate is positive
\* eventually returns, also when cost exceeds burst_size and when other tasks call
\* acquire at the same time.
AcquireIsLive == \A t \in Tasks : (task_pc[t] # "idle") ~> (task_pc[t] = "idle")

\* every call of the run has returned, one of them asked for more than the bucket holds
\* and the last one returned later than the first
AcquireIsLiveWitness ==
    /\ granted = MaxAcquires
    /\ \A t \in Tasks : task_pc[t] = "idle"
    /\ ~unit_costs
    /\ burst_size < MaxCost
    /\ last_grant > first_grant

\* C19 (as claimed): a call of reset returns normally and leaves the bucket full,
\* tokens = burst_size, with last_update = now.
ResetRestores ==
    (reset_outcome # "none")
        => /\ reset_outcome = "returned"
           /\ tokens = Scaled(burst_size)
           /\ last_update = now

\* C20 (as claimed): on a limiter built with the default burst, N acquire calls of cost 1
\* take at least (N - max_rate) / max_rate seconds from the construction until the last
\* one returns.
DefaultBurstKeepsRate ==
    (burst_size = DefaultBurst(max_rate) /\ unit_costs /\ granted > 0)
        => last_grant * max_rate >= (granted - max_rate) * TicksPerSecond

-----------------------------------------------------------------------------
(* Properties of the per-record enrichment                                 *)

\* C3 (as claimed): when a sub-fetch of a record throws, the record's other steps still
\* run: the website search was made, the headcounts were extracted from the filings, and
\* the location found before the failing step is kept; in particular a record whose
\* website search throws has its location and its headcount step.
FieldLevelIsolation ==
    (rec_pc = "returned" /\ threw # "none")
        => /\ "search" \in steps_run
           /\ HeadcountApplies(filings) => "headcount" \in steps_run
           /\ (GeocodeApplies(profile) /\ threw # "geocode")
                 => result.manufacturing_location # ""

\* C17: for a record carrying both columns the per-record enrichment never raises and
\* goes on until it returns, whatever its sub-fetches return or throw; what it returns
\* has the six fields.
RecordNeverRaises ==
    /\ rec_pc # "raised"
    /\ rec_pc # "returned" => ENABLED RecordNext
    /\ rec_pc = "returned" => DOMAIN result = ResultFields

\* C17 witness: the enrichment returned after both step-1 fetches failed and the scrape
\* of the website it found threw.
RecordNeverRaisesWitness ==
    /\ rec_pc = "returned"
    /\ profile = "throw" /\ filings = "throw"
    /\ threw = "scrape"
    /\ result.company_url = "url"

\* C18 (as claimed): once the geocoding step is past, the location of a record whose
\* profile has an address is the geocoder's string if the geocoder returned one and the
\* formatted address otherwise; the location of a record without address is empty.
LocationRule ==
    (rec_pc \notin {"start", "geocode"})
        => result.manufacturing_location =
             IF ~GeocodeApplies(profile) THEN ""
             ELSE IF geocoded = "latlon" THEN "lat,lng (label)"
             ELSE "formatted address"

\* C29 (as claimed): when exactly one of the two step-1 fetches throws, the other's
\* result is still used: with a throwing profile fetch and filings found, the location
\* stays empty and the headcounts are extracted; with a throwing filings fetch and a
\* profile carrying an address, the headcounts stay empty and the location is set.
SubFetchIndependence ==
    (rec_pc = "returned")
        => /\ (profile = "throw" /\ filings = "some")
                 => /\ result.manufacturing_location = ""
                    /\ "headcount" \in steps_run
           /\ (filings = "throw" /\ profile = "address")
                 => /\ \A y \in Years : result[y] = ""
                    /\ result.manufacturing_location # ""

\* C35: a result with a description has a company_url; the scrape has run only after
\* the search returned a URL, and a record about to scrape has not scraped before.
DescriptionNeedsWebsite ==
    /\ result.description # "" => result.company_url # ""
    /\ "scrape" \in steps_run => result.company_url # ""
    /\ rec_pc = "scrape" => "scrape" \notin steps_run

\* C35 witness: the enrichment returned with the description scraped from the website
\* the search found.
DescriptionNeedsWebsiteWitness ==
    /\ rec_pc = "returned"
    /\ "scrape" \in steps_run
    /\ result.company_url = "url"
    /\ result.description = "text"

-----------------------------------------------------------------------------
(* Properties of the batch orchestrator                                    *)

\* the result the orchestrator records for input row k
ExpectedResult(k) == IF has_columns THEN PerformEnrichment(fetch[k]) ELSE EmptyResult

\* C1 (as claimed): a run killed right after its second checkpoint and started again with
\* --resume ends with an output file equal to that of one uninterrupted run, which
\* holds every input row with its result.
ResumeEquivalence ==
    (run_pc = "done" /\ resumed /\ killed_after = 2)
        => /\ file_exists
           /\ output_file = [k \in 1..input_len |-> [row |-> k, result |-> ExpectedResult(k)]]

\* C2: a run that was not resumed returns exactly N rows, row k being input row k joined
\* with the result computed for input row k, every result carrying the six fields; the
\* output file of a non-empty run holds the same rows.
RowInvariant ==
    (run_pc = "done" /\ ~resumed)
        => /\ Len(final_df) = input_len
           /\ \A k \in 1..input_len :
                /\ final_df[k].row = k
                /\ final_df[k].result = ExpectedResult(k)
                /\ DOMAIN final_df[k].result = ResultFields
           /\ input_len > 0 => output_file = final_df

\* C2 witness: a run has ended whose last window's second task completed before its first,
\* one of the two having a throwing website search, with different results for the two.
RowInvariantWitness ==
    /\ run_pc = "done" /\ ~resumed
    /\ Len(finished) = 2 /\ finished[1] = 2
    /\ fetch[input_len] = SearchThrows
    /\ final_df[input_len].result # final_df[input_len - 1].result

\* C5: the number of records being enriched is never above concurrency.
ConcurrencyBound ==
    Cardinality({j \in 1..Len(batch_pc) : batch_pc[j] = "running"}) <= concurrency

\* C5 witness: in a window after the first, concurrency records are being enriched while
\* another task of the window waits for a permit.
ConcurrencyBoundWitness ==
    /\ i > 0
    /\ Cardinality({j \in 1..Len(batch_pc) : batch_pc[j] = "running"}) = concurrency
    /\ \E j \in 1..Len(batch_pc) : batch_pc[j] = "created"

\* C12: once a window has been processed, the final one and a window whose records all
\* raised included, the output file holds rows 1..k of the run's frame merged with their
\* results, k being the number of records processed so far, and one checkpoint has been
\* written per window.
CheckpointAfterEveryWindow ==
    (run_pc \in {"loop", "done"} /\ Len(enriched_results) > 0)
        => LET k == Len(enriched_results) IN
           /\ file_exists
           /\ output_file = MergeResults(SubSeq(df, 1, k), enriched_results)
           /\ k = Min(i, Len(df))
           /\ (checkpoints - 1) * checkpoint_every < k
           /\ k <= checkpoints * checkpoint_every

\* C12 witness: a run of three records in windows of two, every record raising, has
\* ended with two checkpoints written, the second after the short final window.
CheckpointAfterEveryWindowWitness ==
    /\ run_pc = "done"
    /\ ~has_columns
    /\ Len(df) = 3 /\ checkpoint_every = 2
    /\ checkpoints = 2
    /\ Len(output_file) = 3

\* C13: while a record of a window is being enriched or has been enriched, every record
\* of the earlier windows has completed and the checkpoint covering them is in the
\* output file.
WindowSequencing ==
    (run_pc = "gather" /\ \E j \in 1..Len(batch) : batch_pc[j] \in {"running", "done"})
        => /\ \A k \in 1..i : df[k] \in completed
           /\ Len(enriched_results) = i
           /\ i > 0 => /\ file_exists
                       /\ output_file = MergeResults(SubSeq(df, 1, i), enriched_results)
                       /\ checkpoints * checkpoint_every = i

\* C13 witness: a record of the third window is being enriched.
WindowSequencingWitness ==
    /\ run_pc = "gather"
    /\ checkpoints = 2
    /\ i = 2 * checkpoint_every
    /\ \E j \in 1..Len(batch) : batch_pc[j] = "running"

\* C14: when a checkpoint write has failed the run is over with a failure exit code,
\* and no record of a later window has been or is being enriched.
CheckpointFailureIsFatal ==
    write_failed
        => /\ run_pc = "failed"
           /\ ExitCode = 1
           /\ \A j \in 1..Len(batch) : batch_pc[j] = "done"
           /\ completed = {df[k] : k \in 1..(i + Len(batch))}
           /\ Len(enriched_results) = i + Len(batch)

\* C14 witness: the write failed after a window in the middle of the run, leaving a
\* part of the rows in the file, with records of later windows still to do.
CheckpointFailureIsFatalWitness ==
    /\ write_failed
    /\ i > 0
    /\ i + Len(batch) < Len(df)
    /\ file_exists /\ Len(output_file) < i

\* C15: between windows and at the end, the result at each position is the all-empty
\* result when the record's task raised and the task's own result otherwise, the progress
\* tracker has counted the former as failures and the latter as successes, and a run that
\* ended has processed every record of its frame.
RecordLevelContainment ==
    (run_pc \in {"loop", "done"})
        => /\ \A k \in 1..Len(enriched_results) :
                enriched_results[k] =
                    IF has_columns THEN PerformEnrichment(fetch[df[k]]) ELSE EmptyResult
           /\ pt_failed = (IF has_columns THEN 0 ELSE Len(enriched_results))
           /\ pt_successful = (IF has_columns THEN Len(enriched_results) ELSE 0)
           /\ run_pc = "done" => Len(enriched_results) = Len(df)

\* C15 witness: every record of a run of several windows raised, and the run ended with
\* all of them counted as failures.
RecordLevelContainmentWitness ==
    /\ run_pc = "done"
    /\ ~has_columns
    /\ checkpoints >= 2
    /\ pt_failed = Len(df) /\ pt_successful = 0
    /\ \A k \in 1..Len(df) : enriched_results[k] = EmptyResult

InterruptionSafety ==
    (run_pc = "killed") => (output_file = last_checkpoint)

\* C32: the permits held are those of the tasks inside enrich_single_company, between
\* 0 and concurrency, and none is held once a window's gather has completed, whether
\* the tasks returned or raised.
PermitsConserved ==
    /\ sem_value \in 0..concurrency
    /\ concurrency - sem_value
          = Cardinality({j \in 1..Len(batch_pc) : batch_pc[j] = "running"})
    /\ ((run_pc = "gather" /\ AllDone) \/ run_pc \in {"loop", "done", "failed"})
          => sem_value = concurrency

\* C32 witness: a window of two tasks that both raised is over, on a semaphore of one
\* permit, and the permit is free again.
PermitsConservedWitness ==
    /\ run_pc = "loop"
    /\ ~has_columns
    /\ concurrency = 1
    /\ Len(batch) = 2
    /\ \A j \in 1..Len(batch) : batch_pc[j] = "done" /\ batch_out[j].raised
    /\ sem_value = 1

\* C33 (as claimed): when enrich_dataframe has returned, the output file exists and
\* holds the rows of the frame it returned, for every input size from 0 on.
Finalization ==
    (run_pc = "done") => (file_exists /\ output_file = final_df)

\* C34: processed = successful + failed = the number of results accumulated, after
\* every window; at completion it is the number of records of the frame.
ProgressCounters ==
    /\ pt_processed = pt_successful + pt_failed
    /\ pt_processed = Len(enriched_results)
    /\ run_pc = "done" => pt_processed = Len(df)

\* C34 witness: a run over three records that all raised, in windows of two, has
\* completed with processed = failed = 3.
ProgressCountersWitness ==
    /\ run_pc = "done"
    /\ checkpoint_every = 2
    /\ Len(df) = 3
    /\ pt_processed = 3
    /\ pt_failed = 3

-----------------------------------------------------------------------------
(* Properties of AdaptiveRateLimiter                                       *)

\* C7 (as claimed): every 10th consecutive record_success raises current_rate to
\* min(configured ceiling, 1.1 * current_rate) and resets consecutive_successes to 0.
AdaptiveClimb ==
    [][(adaptive_op' = "record_success" /\ consecutive_successes = SuccessThreshold - 1)
         => /\ current_rate' = RMin(configured.max_rate, RMul(current_rate, Rat(11, 10)))
            /\ consecutive_successes' = 0]_vars

\* C8: current_rate always lies between the configured min_rate and the configured max_rate.
AdaptiveRateInRange ==
    /\ RLeq(configured.min_rate, current_rate)
    /\ RLeq(current_rate, configured.max_rate)

\* C8 witness: failures have driven the rate from a higher initial rate down to the floor.
AdaptiveRateInRangeWitness ==
    /\ adaptive_op = "record_failure"
    /\ current_rate = configured.min_rate
    /\ RLess(configured.min_rate, configured.initial_rate)

\* C9: one record_failure(is_rate_limit=True) sets current_rate to
\* max(min_rate, current_rate / 2), whatever recent_failures is.
AdaptiveBackoff ==
    [][adaptive_op' = "record_failure_rate_limit"
         => current_rate' = RMax(configured.min_rate, RMul(current_rate, Rat(1, 2)))]_vars

\* C9 witness: a rate-limit failure halved the initial rate with recent_failures below 3.
AdaptiveBackoffWitness ==
    /\ adaptive_op = "record_failure_rate_limit"
    /\ recent_failures = 1
    /\ current_rate = RMul(configured.initial_rate, Rat(1, 2))
    /\ current_rate # configured.initial_rate

\* C10: record_failure(is_rate_limit=False) leaves current_rate alone while the resulting
\* recent_failures is below 3 and halves it (floored at min_rate) when it is 3 or more.
FailureThresholdRule ==
    [][adaptive_op' = "record_failure"
         => IF recent_failures' < 3
            THEN current_rate' = current_rate
            ELSE current_rate' = RMax(configured.min_rate, RMul(current_rate, Rat(1, 2)))]_vars

\* C10 witness: the third plain failure in a row is the first to halve the initial rate.
FailureThresholdRuleWitness ==
    /\ adaptive_op = "record_failure"
    /\ recent_failures = 3
    /\ current_rate = RMul(configured.initial_rate, Rat(1, 2))
    /\ current_rate # configured.initial_rate

\* C25 (as claimed): when, from some point on, every call is a record_success,
\* current_rate eventually reaches the ceiling the limiter was constructed with.
RateRecovers ==
    <>[](adaptive_op = "record_success") => <>(current_rate = configured.max_rate)

\* C26 (as claimed): the rate acquire refills with, self.max_rate, equals current_rate
\* in every state, from construction onward.
RefillRateIsCurrentRate == adaptive_max_rate = current_rate

\* C39: after every call consecutive_successes is between 0 and 9 and recent_failures
\* is not negative; record_failure leaves consecutive_successes at 0, and
\* record_success lowers recent_failures by one unless it is 0.
CountersInRange ==
    [][/\ consecutive_successes' \in 0..9
       /\ recent_failures' >= 0
       /\ adaptive_op' \in {"record_failure", "record_failure_rate_limit"}
             => consecutive_successes' = 0
       /\ adaptive_op' = "record_success"
             => recent_failures' = IF recent_failures = 0 THEN 0
                                   ELSE recent_failures - 1]_vars

\* C39 witness: three successes after five failures: two failures are still counted.
CountersInRangeWitness ==
    /\ adaptive_op = "record_success"
    /\ consecutive_successes = 3
    /\ recent_failures = 2

-----------------------------------------------------------------------------
(* Properties of the cached decorator                                      *)

\* C22 (as claimed): a call of the wrapper whose argument an earlier call has returned
\* for, the cache's storage having had no fault, returns the value of that first call
\* and does not run the decorated function.
CacheMemoization ==
    (wrap_pc = "returned" /\ wrap_repeat /\ ~faulted)
        => /\ wrap_invocations = 0
           /\ wrap_result = first_result[wrap_arg]

\* C23: a call during which cache.get or cache.set raised does not raise; when it
\* has returned, the decorated function ran exactly once in it and the value returned
\* is that run's.
CacheNeverADependency ==
    (get_raised \/ set_raised)
        => /\ wrap_pc # "raised"
           /\ wrap_pc = "returned"
                 => /\ wrap_invocations = 1
                    /\ wrap_result = invoked[wrap_arg]

\* C23 witness: a call of a plain function returned after both cache.get and cache.set
\* raised in it, an earlier call having stored a value for the same argument.
CacheNeverADependencyWitness ==
    /\ wrap_pc = "returned"
    /\ ~wrapped_async
    /\ get_raised /\ set_raised
    /\ store[wrap_arg] # 0
    /\ wrap_invocations = 1

-----------------------------------------------------------------------------
(* Properties of the headcount extraction                                  *)

\* the first filing among the first n, in list order, that is dated in year y and
\* whose document yields a count; 0 when there is none
FirstCount(y, n) ==
    LET hits == {k \in 1..n : filing_list[k].year = y /\ filing_list[k].outcome = "count"}
    IN  IF hits = {} THEN 0 ELSE CHOOSE k \in hits : \A j \in hits : k <= j

\* C27: over the filings gone through, the headcount of each tracked year is the count
\* of the first filing of that year whose document yields one; a document was asked for
\* only for filings of a tracked year, and for none that came after its year was filled.
FirstSeenPerYear ==
    /\ \A y \in TrackedYears : headcounts[y] = FirstCount(y, fi)
    /\ \A k \in doc_fetches :
          /\ filing_list[k].year \in TrackedYears
          /\ FirstCount(filing_list[k].year, k - 1) = 0

\* C27 witness: the extraction returned for a list with two filings of one tracked year
\* that both yield a count, and a linked filing of another year; the first one's count
\* is held and only its document was asked for.
FirstSeenPerYearWitness ==
    /\ extract_pc = "returned"
    /\ \E k1, k2, k3 \in 1..Len(filing_list) :
          /\ k1 < k2
          /\ filing_list[k1].year \in TrackedYears
          /\ filing_list[k2].year = filing_list[k1].year
          /\ filing_list[k1].outcome = "count" /\ filing_list[k2].outcome = "count"
          /\ filing_list[k3].year = "other" /\ filing_list[k3].outcome = "count"
          /\ headcounts[filing_list[k1].year] = k1
          /\ doc_fetches = {k1}

\* C28: the extraction never raises; when it has returned, every filing of the list was
\* gone through, a year is filled only by a filing that yields a count, and a year for
\* which some filing yields a count is filled, whatever failed before that filing.
PerFilingContainment ==
    /\ extract_pc # "raised"
    /\ extract_pc = "returned"
          => /\ fi = Len(filing_list)
             /\ \A y \in TrackedYears :
                   /\ headcounts[y] # 0 => filing_list[headcounts[y]].outcome = "count"
                   /\ FirstCount(y, Len(filing_list)) # 0 => headcounts[y] # 0

\* C28 witness: the extraction returned for a list in which a filing whose handling
\* throws and a filing whose download fails come before a filing of the same year
\* that yields a count, and that last filing filled the year.
PerFilingContainmentWitness ==
    /\ extract_pc = "returned"
    /\ Len(filing_list) = 3
    /\ filing_list[1].year \in TrackedYears
    /\ filing_list[2].year = filing_list[1].year
    /\ filing_list[3].year = filing_list[1].year
    /\ filing_list[1].outcome = "malformed"
    /\ filing_list[2].outcome = "no_content"
    /\ filing_list[3].outcome = "count"
    /\ headcounts[filing_list[1].year] = 3
    /\ doc_fetches = {2, 3}

-----------------------------------------------------------------------------
(* Properties of the website search                                        *)

\* C30: a record's call to the search provider comes after exactly one acquire that
\* has returned, one provider call per record; every record acquires from the limiter
\* held by the run's CompanyEnricher, the only RateLimiter the run builds.
SearchUsesRunLimiter ==
    /\ limiters_built <= 1
    /\ \A t \in SearchTasks :
          /\ provider_calls[t] <= 1
          /\ provider_calls[t] > 0 => search_acquires[t] = 1
          /\ search_pc[t] # "idle"
                => search_limiter[t] # 0 /\ search_limiter[t] = enricher_limiter

\* C30 witness: two records have called the provider, each after its one acquire, while
\* a third is still inside acquire on the same limiter.
SearchUsesRunLimiterWitness ==
    /\ \E t1, t2, t3 \in SearchTasks :
          /\ t1 # t2
          /\ provider_calls[t1] = 1 /\ search_acquires[t1] = 1
          /\ provider_calls[t2] = 1 /\ search_acquires[t2] = 1
          /\ search_pc[t3] = "acquiring"
          /\ search_limiter[t3] = search_limiter[t1]

-----------------------------------------------------------------------------
(* Properties of the run's semaphore and limiter lock                      *)

\* C31: under fair scheduling, with every sub-fetch completing or failing, the run
\* ends after its last window, and a task waiting for a permit or for the limiter's
\* lock always gets to its end, for every concurrency, window size and run length.
RunTerminates ==
    /\ <>(gate_main = "done")
    /\ \A t \in GateTasks :
          (gate_pc[t] \in {"created", "lock_wait"}) ~> (gate_pc[t] = "done")

\* C31 witness: with two permits and a window of three, one task sleeps inside the
\* limiter's lock, the second waits for the lock holding the other permit, and the
\* third waits for a permit.
RunTerminatesWitness ==
    /\ gate_concurrency = 2
    /\ gate_sem = 0
    /\ \E t1, t2, t3 \in GateTasks :
          /\ gate_pc[t1] = "sleeping" /\ gate_lock = t1
          /\ gate_pc[t2] = "lock_wait"
          /\ gate_pc[t3] = "created"

-----------------------------------------------------------------------------
(* Properties of the Nominatim requests                                    *)

\* C36 (as claimed): any two requests sent to Nominatim are at least one second apart.
NominatimPacing ==
    \A a, b \in DOMAIN geo_requests :
        a < b => geo_requests[b] - geo_requests[a] >= GeoTicksPerSecond

-----------------------------------------------------------------------------
(* Properties of BatchProcessor.process_items                              *)

\* C37 (as claimed): a batch that takes the number of items processed up to or past a
\* multiple of checkpoint_every is followed by a call of the callback with all the
\* results so far.
CheckpointCadence ==
    [][(processed_count' \div bp_checkpoint_every > processed_count \div bp_checkpoint_every)
         => /\ callback_calls' = callback_calls + 1
            /\ callback_arg' = results_len']_vars

-----------------------------------------------------------------------------
(* Properties of RateLimiter.__init__                                      *)

\* C38 (as claimed): a limiter built without burst_size has burst_size
\* max(1, round(2 * max_rate)); one built with burst_size has that value.
\* round goes to the nearest integer, a half going to the even one.
DefaultBurstRounds ==
    LET q == (2 * ctor_rate) \div 20
        r == (2 * ctor_rate) % 20
        rounded == IF 2 * r < 20 THEN q
                   ELSE IF 2 * r > 20 THEN q + 1
                   ELSE IF q % 2 = 0 THEN q ELSE q + 1
    IN  (built_burst # -1)
            => built_burst = IF ctor_burst = 0
                             THEN (IF rounded > 1 THEN rounded ELSE 1)
                             ELSE ctor_burst

====
